---- MODULE Spec2Model ----
(***************************************************************************)
(* A model of the robot control core of smilesmith9879/auto_car:           *)
(*   - modules/movement.py : MovementController (move + watchdog thread)   *)
(*   - modules/camera.py   : ServoControl, CameraController (gimbal,       *)
(*                           streaming loop, simulated frame generator)    *)
(* Three specifications share the module, one per independent component:   *)
(*   Spec        the MovementController with its watchdog thread           *)
(*   GimbalSpec  ServoControl and the gimbal operations of CameraController*)
(*   StreamSpec  the streaming session, its loop threads and frame buffer  *)
(***************************************************************************)
EXTENDS Integers, Sequences, FiniteSets, TLC

VARIABLES
    \* ---- movement.py : MovementController
    hw_m,               \* movement.HARDWARE_AVAILABLE after __init__
    since_command,      \* time.time() - self.last_command_time, in ticks of
                        \* 1/TicksPerSecond second (MaxIdle seconds: that or more)
    current_direction,  \* self.current_direction
    current_speed,      \* self.current_speed
    motor,              \* the last call made on self.robot (the motor driver)
    mv,                 \* the thread calling move(): position, arguments, result
    wd,                 \* the watchdog thread: position and remaining sleep
    wd_stop_age,        \* history: since_command when the watchdog first called
                        \* _set_motors_stop after the last accepted move, taken
                        \* while that move is the last call (-1: no such call yet)
    fields_of,          \* history: for last_command_time, current_direction and
                        \* current_speed, whether the value is of the last call
                        \* that entered move ("last"; at first, of __init__) or
                        \* of an earlier one ("earlier")
    \* ---- camera.py : ServoControl / CameraController gimbal
    hw_c,               \* camera.HARDWARE_AVAILABLE after __init__
    sc_pan,             \* servo_control.pan   (units of 1/K degree)
    sc_tilt,            \* servo_control.tilt  (units of 1/K degree)
    pan_angle,          \* CameraController.pan_angle  (units of 1/K degree)
    tilt_angle,         \* CameraController.tilt_angle (units of 1/K degree)
    g_op,               \* history: the last gimbal operation, its arguments, the
                        \* state before it, its result and the servo calls it made
    \* ---- camera.py : CameraController streaming
    is_streaming,       \* self.is_streaming
    stream_thread,      \* self.stream_thread (0: None, else index into thr)
    frame_buffer,       \* self.frame_buffer (a frame, or NoFrame)
    thr,                \* the _stream_video threads spawned so far
    sim,                \* the _update_simulation thread
    produced,           \* number of frames captured / generated so far
    caller,             \* the thread calling start_streaming / stop_streaming: its
                        \* position, and the active flag its call found
    calls,              \* history: the start/stop calls that returned, in order
    rd,                 \* history: the last get_current_frame / get_frame_base64
    fb_write            \* history: who last assigned frame_buffer, and whether
                        \* streaming was active at that moment

motion_vars == <<hw_m, since_command, current_direction, current_speed,
                 motor, mv, wd, wd_stop_age, fields_of>>
gimbal_vars == <<hw_c, sc_pan, sc_tilt, pan_angle, tilt_angle, g_op>>
stream_vars == <<is_streaming, stream_thread, frame_buffer, thr, sim, produced,
                 caller, calls, rd, fb_write>>
vars == <<motion_vars, gimbal_vars, stream_vars>>

\* What an operation of one component leaves alone: the other components.
other_than_motion == <<gimbal_vars, stream_vars>>
other_than_gimbal == <<motion_vars, stream_vars>>
other_than_stream == <<motion_vars, gimbal_vars>>

(***************************************************************************)
(* movement.py : MovementController.                                       *)
(* The program uses time.time() and last_command_time only through their   *)
(* difference, which the model keeps as since_command: an assignment       *)
(* last_command_time = time.time() sets it to 0, the passing of time       *)
(* raises it, and nothing else changes it.                                 *)
(***************************************************************************)
TicksPerSecond == 2     \* bound: resolution of the clock
MaxIdle == 7            \* bound: seconds of silence told apart

WATCHDOG_DEADLINE == 5  \* seconds, `> 5` in _watchdog
WATCHDOG_PERIOD == 1    \* seconds, time.sleep(1) in _watchdog
DURATION_HINT_TENTHS == 1   \* the 0.1 s t_time argument of every driver call

Directions == {"forward", "backward", "left", "right", "stop"}
DirectionInputs == Directions \cup {"up"}      \* "up" is no direction token
SpeedInputs == {50, 120}

NoCall == [prim |-> "none", speed |-> 0, t_time |-> 0, by |-> "none"]

\* self.robot.<prim>(speed_percent, 0.1): the call the driver receives
RobotCall(prim, speed_percent, by) ==
    [prim |-> prim, speed |-> speed_percent, t_time |-> DURATION_HINT_TENTHS, by |-> by]

\* _set_motors_forward .. _set_motors_stop: with hardware the driver is called,
\* in simulation the call is only logged and the driver sees nothing.
SetMotorsForward(speed_percent, by) ==
    IF hw_m THEN RobotCall("t_up", speed_percent, by) ELSE motor
SetMotorsBackward(speed_percent, by) ==
    IF hw_m THEN RobotCall("t_down", speed_percent, by) ELSE motor
SetMotorsLeft(speed_percent, by) ==
    IF hw_m THEN RobotCall("turnLeft", speed_percent, by) ELSE motor
SetMotorsRight(speed_percent, by) ==
    IF hw_m THEN RobotCall("turnRight", speed_percent, by) ELSE motor
SetMotorsStop(by) ==
    IF hw_m THEN [prim |-> "t_stop", speed |-> 0, t_time |-> DURATION_HINT_TENTHS, by |-> by]
    ELSE motor

MvIdle == [pc |-> "idle", direction |-> "stop", speed |-> 0, result |-> "none"]

MotionInit(h) ==
    /\ hw_m = h
    /\ since_command = 0
    /\ current_direction = "stop"
    /\ current_speed = 0
    /\ motor = NoCall
    /\ mv = MvIdle
    /\ wd = [pc |-> "check", sleep_left |-> 0]
    /\ wd_stop_age = -1
    /\ fields_of = [time |-> "last", direction |-> "last", speed |-> "last"]

\* A caller enters move(direction, speed_percent).
MoveCall(direction, speed_percent) ==
    /\ mv.pc = "idle"
    /\ mv' = [pc |-> "set_time", direction |-> direction, speed |-> speed_percent,
              result |-> "none"]
    /\ fields_of' = [time |-> "earlier", direction |-> "earlier", speed |-> "earlier"]
    /\ UNCHANGED <<hw_m, since_command, current_direction, current_speed,
                   motor, wd, wd_stop_age>>
    /\ UNCHANGED other_than_motion

\* self.last_command_time = time.time()
MoveSetTime ==
    /\ mv.pc = "set_time"
    /\ since_command' = 0
    /\ mv' = [mv EXCEPT !.pc = "set_direction"]
    /\ fields_of' = [fields_of EXCEPT !.time = "last"]
    /\ UNCHANGED <<hw_m, current_direction, current_speed, motor, wd, wd_stop_age>>
    /\ UNCHANGED other_than_motion

\* self.current_direction = direction
MoveSetDirection ==
    /\ mv.pc = "set_direction"
    /\ current_direction' = mv.direction
    /\ mv' = [mv EXCEPT !.pc = "set_speed"]
    /\ fields_of' = [fields_of EXCEPT !.direction = "last"]
    /\ UNCHANGED <<hw_m, since_command, current_speed, motor, wd, wd_stop_age>>
    /\ UNCHANGED other_than_motion

\* self.current_speed = speed_percent
MoveSetSpeed ==
    /\ mv.pc = "set_speed"
    /\ current_speed' = mv.speed
    /\ mv' = [mv EXCEPT !.pc = "dispatch"]
    /\ fields_of' = [fields_of EXCEPT !.speed = "last"]
    /\ UNCHANGED <<hw_m, since_command, current_direction, motor, wd, wd_stop_age>>
    /\ UNCHANGED other_than_motion

\* Mutant of MoveDrive: the branches of left and right are exchanged.
MoveDriveSwapped(direction, speed_percent) ==
    CASE direction = "forward"  -> SetMotorsForward(speed_percent, "move")
      [] direction = "backward" -> SetMotorsBackward(speed_percent, "move")
      [] direction = "left"     -> SetMotorsRight(speed_percent, "move")
      [] direction = "right"    -> SetMotorsLeft(speed_percent, "move")
      [] direction = "stop"     -> SetMotorsStop("move")
      [] OTHER                  -> motor

\* The driver call selected by the if/elif chain of move.
MoveDrive(direction, speed_percent) ==
    CASE direction = "forward"  -> SetMotorsForward(speed_percent, "move")
      [] direction = "backward" -> SetMotorsBackward(speed_percent, "move")
      [] direction = "left"     -> SetMotorsLeft(speed_percent, "move")
      [] direction = "right"    -> SetMotorsRight(speed_percent, "move")
      [] direction = "stop"     -> SetMotorsStop("move")
      [] OTHER                  -> motor

\* What move returns to its caller: True after the driver call, False for a
\* direction of no branch; an exception of the driver call is caught nowhere
\* in move and reaches the caller.
MoveResult(direction, raises) ==
    IF direction \notin Directions THEN "False"
    ELSE IF raises THEN "raised" ELSE "True"

\* The if/elif chain of move and its return. `raises`: the driver call throws
\* (only a real driver can).
MoveDispatch(raises) ==
    /\ mv.pc = "dispatch"
    /\ raises => hw_m /\ mv.direction \in Directions
    /\ mv' = [mv EXCEPT !.pc = "idle", !.result = MoveResult(mv.direction, raises)]
    /\ motor' = IF raises THEN motor ELSE MoveDrive(mv.direction, mv.speed)
    /\ wd_stop_age' = IF mv'.result = "True" THEN -1 ELSE wd_stop_age
    /\ UNCHANGED <<hw_m, fields_of, since_command, current_direction, current_speed, wd>>
    /\ UNCHANGED other_than_motion

\* The deadline test of _watchdog: time.time() - self.last_command_time > 5
Expired(elapsed) == elapsed > WATCHDOG_DEADLINE * TicksPerSecond

\* if time.time() - self.last_command_time > 5:
WatchdogCheck ==
    /\ wd.pc = "check"
    /\ wd' = IF Expired(since_command)
             THEN [wd EXCEPT !.pc = "stop"]
             ELSE [pc |-> "sleep", sleep_left |-> WATCHDOG_PERIOD * TicksPerSecond]
    /\ UNCHANGED <<hw_m, fields_of, since_command, current_direction, current_speed,
                   motor, mv, wd_stop_age>>
    /\ UNCHANGED other_than_motion

\* The watchdog thread after its call of _set_motors_stop: an exception of the
\* driver is caught nowhere in _watchdog and ends the thread.
WatchdogAfterStop(raises) ==
    IF raises THEN [pc |-> "dead", sleep_left |-> 0]
    ELSE [pc |-> "sleep", sleep_left |-> WATCHDOG_PERIOD * TicksPerSecond]

\* Mutant of WatchdogStop: the forced stop also stamps last_command_time, as a
\* watchdog that called move('stop') would.
WatchdogStopAsCommand(raises) ==
    /\ wd.pc = "stop"
    /\ raises => hw_m
    /\ motor' = IF raises THEN motor ELSE SetMotorsStop("watchdog")
    /\ wd' = WatchdogAfterStop(raises)
    /\ wd_stop_age' = IF ~raises /\ mv.pc = "idle" /\ mv.result = "True" /\ wd_stop_age = -1
                      THEN since_command ELSE wd_stop_age
    /\ since_command' = 0
    /\ UNCHANGED <<hw_m, fields_of, current_direction, current_speed, mv>>
    /\ UNCHANGED other_than_motion

\* self._set_motors_stop() in _watchdog, then time.sleep(1). _set_motors_stop
\* assigns neither current_direction nor current_speed.
WatchdogStop(raises) ==
    /\ wd.pc = "stop"
    /\ raises => hw_m
    /\ motor' = IF raises THEN motor ELSE SetMotorsStop("watchdog")
    /\ wd' = WatchdogAfterStop(raises)
    /\ wd_stop_age' = IF ~raises /\ mv.pc = "idle" /\ mv.result = "True" /\ wd_stop_age = -1
                      THEN since_command ELSE wd_stop_age
    /\ UNCHANGED <<hw_m, fields_of, since_command, current_direction, current_speed, mv>>
    /\ UNCHANGED other_than_motion

\* time.sleep(1) returns
WatchdogWake ==
    /\ wd.pc = "sleep"
    /\ wd.sleep_left = 0
    /\ wd' = [pc |-> "check", sleep_left |-> 0]
    /\ UNCHANGED <<hw_m, fields_of, since_command, current_direction, current_speed,
                   motor, mv, wd_stop_age>>
    /\ UNCHANGED other_than_motion

\* Time passes by one tick. Computation is instantaneous: time advances only
\* while no move call is under way and the watchdog sleeps (or is dead).
Tick ==
    /\ mv.pc = "idle"
    /\ \/ wd.pc = "dead"
       \/ wd.pc = "sleep" /\ wd.sleep_left > 0
    /\ since_command' = IF since_command < MaxIdle * TicksPerSecond
                        THEN since_command + 1 ELSE since_command
    /\ wd' = IF wd.pc = "sleep" THEN [wd EXCEPT !.sleep_left = @ - 1] ELSE wd
    /\ UNCHANGED <<hw_m, fields_of, current_direction, current_speed, motor, mv, wd_stop_age>>
    /\ UNCHANGED other_than_motion

MotionNext ==
    \/ \E d \in DirectionInputs, s \in SpeedInputs : MoveCall(d, s)
    \/ MoveSetTime
    \/ MoveSetDirection
    \/ MoveSetSpeed
    \/ \E r \in BOOLEAN : MoveDispatch(r)
    \/ WatchdogCheck
    \/ \E r \in BOOLEAN : WatchdogStop(r)
    \/ WatchdogWake
    \/ Tick

(***************************************************************************)
(* camera.py : ServoControl and the gimbal operations of CameraController. *)
(* Angles are kept in units of 1/K degree, so that error / 75 is exact.    *)
(***************************************************************************)
MaxGimbalOps == 3       \* bound: gimbal operations explored in a row
MaxRepeats == 45        \* bound: calls of calculate_servo_angles with one input

K == 75                 \* the gain divisor of calculate_servo_angles
PAN_MIN == 0
PAN_MAX == 180
TILT_MIN == -5
TILT_MAX == 30
PAN_INIT == 90
TILT_INIT == -5
RES_W == 640
RES_H == 480
PAN_CHANNEL == 0
TILT_CHANNEL == 1

Deg(d) == d * K

Max2(a, b) == IF a >= b THEN a ELSE b
Min2(a, b) == IF a <= b THEN a ELSE b

\* Mutant of Clamp: the upper limit is not applied.
ClampLowerOnly(v, lo, hi) == Max2(Deg(lo), v)

\* Mutant of Clamp: the lower limit is not applied.
ClampUpperOnly(v, lo, hi) == Min2(v, Deg(hi))

\* max(lo, min(v, hi)), lo and hi in degrees
Clamp(v, lo, hi) == Max2(Deg(lo), Min2(v, Deg(hi)))

\* Mutant of CalculateServoAngles: the adjustment is added, not subtracted.
CalculateServoAnglesAdding(pan, tilt, object_center_x, object_center_y, frame_width, frame_height) ==
    LET error_pan  == object_center_x - (frame_width \div 2)
        error_tilt == object_center_y - (frame_height \div 2)
    IN  <<Clamp(pan + error_pan, PAN_MIN, PAN_MAX),
          Clamp(tilt + error_tilt, TILT_MIN, TILT_MAX)>>

\* Mutant of CalculateServoAngles: the frame centre is rounded up.
CalculateServoAnglesCeilCentre(pan, tilt, object_center_x, object_center_y, frame_width, frame_height) ==
    LET error_pan  == object_center_x - ((frame_width + 1) \div 2)
        error_tilt == object_center_y - ((frame_height + 1) \div 2)
    IN  <<Clamp(pan - error_pan, PAN_MIN, PAN_MAX),
          Clamp(tilt - error_tilt, TILT_MIN, TILT_MAX)>>

\* ServoControl.calculate_servo_angles from the angles (pan, tilt): the pair it
\* returns, which is also the pair it stores in self.pan, self.tilt.
CalculateServoAngles(pan, tilt, object_center_x, object_center_y, frame_width, frame_height) ==
    LET error_pan  == object_center_x - (frame_width \div 2)
        error_tilt == object_center_y - (frame_height \div 2)
        \* error / 75 degrees is `error` units of 1/K degree
        new_pan  == pan - error_pan
        new_tilt == tilt - error_tilt
    IN  <<Clamp(new_pan, PAN_MIN, PAN_MAX), Clamp(new_tilt, TILT_MIN, TILT_MAX)>>

\* Mutant of AngleInRange: only the lower limit of each axis is tested.
AngleInRangeLowerOnly(control, angle) ==
    /\ control = "pan"  => Deg(0) <= angle
    /\ control = "tilt" => Deg(-5) <= angle

\* The validation of set_gimbal_angle.
ValidControl(control) == control \in {"pan", "tilt"}
AngleInRange(control, angle) ==
    /\ control = "pan"  => Deg(0) <= angle /\ angle <= Deg(180)
    /\ control = "tilt" => Deg(-5) <= angle /\ angle <= Deg(30)

\* Mutant of ServoAngle: the tilt is sent as it is, like the pan.
ServoAngleUnmapped(control, angle) == angle

\* The physical angle sent to the servo: pan as it is, tilt remapped by
\* ((angle - (-5)) / 35) * 35 + 85.
ServoAngle(control, angle) ==
    IF control = "pan" THEN angle
    ELSE (((angle - Deg(-5)) * 35) \div 35) + Deg(85)
ServoChannel(control) == IF control = "pan" THEN PAN_CHANNEL ELSE TILT_CHANNEL

\* Mutant of SetGimbalAngleFrom: only CameraController's copy of the angle is
\* assigned, servo_control's is left as it was.
SetGimbalAngleFromControllerOnly(st, control, angle, failing) ==
    IF ~ValidControl(control) THEN [st |-> st, ok |-> FALSE, servo |-> <<>>]
    ELSE IF ~AngleInRange(control, angle) THEN [st |-> st, ok |-> FALSE, servo |-> <<>>]
    ELSE LET st2 == IF control = "pan"
                    THEN <<angle, st[2], st[3], st[4]>>
                    ELSE <<st[1], angle, st[3], st[4]>>
         IN  IF hw_c
             THEN IF ServoChannel(control) \in failing
                  THEN [st |-> st2, ok |-> FALSE, servo |-> <<>>]
                  ELSE [st |-> st2, ok |-> TRUE,
                        servo |-> << <<ServoChannel(control), ServoAngle(control, angle)>> >>]
             ELSE [st |-> st2, ok |-> TRUE, servo |-> <<>>]

\* A set_gimbal_angle that restores the angles it had stored when the servo
\* driver throws. The code does not do this.
SetGimbalAngleFromRollingBack(st, control, angle, failing) ==
    IF ~ValidControl(control) THEN [st |-> st, ok |-> FALSE, servo |-> <<>>]
    ELSE IF ~AngleInRange(control, angle) THEN [st |-> st, ok |-> FALSE, servo |-> <<>>]
    ELSE LET st2 == IF control = "pan"
                    THEN <<angle, st[2], angle, st[4]>>
                    ELSE <<st[1], angle, st[3], angle>>
         IN  IF hw_c
             THEN IF ServoChannel(control) \in failing
                  THEN [st |-> st, ok |-> FALSE, servo |-> <<>>]
                  ELSE [st |-> st2, ok |-> TRUE,
                        servo |-> << <<ServoChannel(control), ServoAngle(control, angle)>> >>]
             ELSE [st |-> st2, ok |-> TRUE, servo |-> <<>>]

\* set_gimbal_angle(control, angle) from the state st = <<pan_angle, tilt_angle,
\* servo_control.pan, servo_control.tilt>>; `failing` is the set of servo
\* channels whose set_servo_angle call throws. The result: the state after, the
\* value returned and the calls made on the servo driver.
SetGimbalAngleFrom(st, control, angle, failing) ==
    IF ~ValidControl(control) THEN [st |-> st, ok |-> FALSE, servo |-> <<>>]
    ELSE IF ~AngleInRange(control, angle) THEN [st |-> st, ok |-> FALSE, servo |-> <<>>]
    ELSE LET st2 == IF control = "pan"
                    THEN <<angle, st[2], angle, st[4]>>
                    ELSE <<st[1], angle, st[3], angle>>
         IN  IF hw_c
             THEN IF ServoChannel(control) \in failing
                  THEN [st |-> st2, ok |-> FALSE, servo |-> <<>>]
                  ELSE [st |-> st2, ok |-> TRUE,
                        servo |-> << <<ServoChannel(control), ServoAngle(control, angle)>> >>]
             ELSE [st |-> st2, ok |-> TRUE, servo |-> <<>>]

GimbalState == <<pan_angle, tilt_angle, sc_pan, sc_tilt>>

GOpNone == [op |-> "none", control |-> "none", angle |-> 0, x |-> 0, y |-> 0,
            w |-> 0, h |-> 0, pre |-> <<0, 0, 0, 0>>, ok |-> FALSE,
            ret |-> <<0, 0>>, servo |-> <<>>, failing |-> {},
            sub |-> <<FALSE, FALSE>>, n |-> 0]

GimbalInit(h) ==
    /\ hw_c = h
    /\ sc_pan = Deg(PAN_INIT)
    /\ sc_tilt = Deg(TILT_INIT)
    /\ pan_angle = Deg(PAN_INIT)
    /\ tilt_angle = Deg(TILT_INIT)
    /\ g_op = GOpNone

\* A caller's set_gimbal_angle(control, angle).
SetGimbalAngle(control, angle, failing) ==
    /\ g_op.n < MaxGimbalOps
    /\ failing # {} => hw_c /\ ValidControl(control) /\ AngleInRange(control, angle)
                       /\ failing = {ServoChannel(control)}
    /\ LET r == SetGimbalAngleFrom(GimbalState, control, angle, failing)
       IN  /\ pan_angle' = r.st[1]
           /\ tilt_angle' = r.st[2]
           /\ sc_pan' = r.st[3]
           /\ sc_tilt' = r.st[4]
           /\ g_op' = [GOpNone EXCEPT !.op = "set_gimbal_angle", !.control = control,
                          !.angle = angle, !.pre = GimbalState, !.ok = r.ok,
                          !.servo = r.servo, !.failing = failing,
                          !.n = g_op.n + 1]
    /\ UNCHANGED hw_c
    /\ UNCHANGED other_than_gimbal

\* A track_object that gives up after a failed pan command, as
\* `set(pan) and set(tilt)` would. The code does not do this.
TrackObjectFromPanFirst(st, x, y, failing) ==
    LET new == CalculateServoAngles(st[3], st[4], x, y, RES_W, RES_H)
        st1 == <<st[1], st[2], new[1], new[2]>>
        p   == SetGimbalAngleFrom(st1, "pan", new[1], failing)
        t   == SetGimbalAngleFrom(p.st, "tilt", new[2], failing)
    IN  IF p.ok
        THEN [st |-> t.st, ok |-> t.ok, ret |-> new,
              servo |-> p.servo \o t.servo, sub |-> <<p.ok, t.ok>>]
        ELSE [st |-> p.st, ok |-> FALSE, ret |-> new,
              servo |-> p.servo, sub |-> <<FALSE, FALSE>>]

\* track_object(x, y) from the state st: calculate_servo_angles at
\* self.resolution, then set_gimbal_angle for pan and for tilt, each with its
\* own result (sub), and the conjunction of the two returned.
TrackObjectFrom(st, x, y, failing) ==
    LET new == CalculateServoAngles(st[3], st[4], x, y, RES_W, RES_H)
        st1 == <<st[1], st[2], new[1], new[2]>>
        p   == SetGimbalAngleFrom(st1, "pan", new[1], failing)
        t   == SetGimbalAngleFrom(p.st, "tilt", new[2], failing)
    IN  [st |-> t.st, ok |-> (p.ok /\ t.ok), ret |-> new,
         servo |-> p.servo \o t.servo, sub |-> <<p.ok, t.ok>>]

\* A caller's track_object(x, y).
TrackObject(object_center_x, object_center_y, failing) ==
    /\ g_op.n < MaxGimbalOps
    /\ failing # {} => hw_c
    /\ LET r == TrackObjectFrom(GimbalState, object_center_x, object_center_y, failing)
       IN  /\ pan_angle' = r.st[1]
           /\ tilt_angle' = r.st[2]
           /\ sc_pan' = r.st[3]
           /\ sc_tilt' = r.st[4]
           /\ g_op' = [GOpNone EXCEPT !.op = "track_object", !.x = object_center_x,
                          !.y = object_center_y, !.w = RES_W, !.h = RES_H,
                          !.pre = GimbalState, !.ok = r.ok, !.ret = r.ret,
                          !.servo = r.servo, !.failing = failing, !.sub = r.sub,
                          !.n = g_op.n + 1]
    /\ UNCHANGED hw_c
    /\ UNCHANGED other_than_gimbal

\* servo_control.calculate_servo_angles(x, y, w, h) called on the stored angles.
ComputeCall(object_center_x, object_center_y, frame_width, frame_height) ==
    /\ LET new == CalculateServoAngles(sc_pan, sc_tilt, object_center_x,
                                       object_center_y, frame_width, frame_height)
       IN  /\ sc_pan' = new[1]
           /\ sc_tilt' = new[2]
           /\ g_op' = [GOpNone EXCEPT !.op = "calculate_servo_angles",
                          !.x = object_center_x, !.y = object_center_y,
                          !.w = frame_width, !.h = frame_height,
                          !.pre = GimbalState, !.ok = TRUE, !.ret = new,
                          !.n = g_op.n + 1]
    /\ UNCHANGED <<hw_c, pan_angle, tilt_angle>>
    /\ UNCHANGED other_than_gimbal

\* A direct call of servo_control.calculate_servo_angles(x, y, w, h).
Compute(object_center_x, object_center_y, frame_width, frame_height) ==
    /\ g_op.n < MaxGimbalOps
    /\ ComputeCall(object_center_x, object_center_y, frame_width, frame_height)

\* calculate_servo_angles(w // 2, h // 2, w, h): the object is at the centre.
ComputeCentre(frame_width, frame_height) ==
    Compute(frame_width \div 2, frame_height \div 2, frame_width, frame_height)

\* calculate_servo_angles called again and again with one input, as by a
\* caller that keeps seeing the object at one place of the frame.
RepeatCompute(object_center_x, object_center_y, frame_width, frame_height) ==
    /\ g_op.n < MaxRepeats
    /\ g_op.n > 0 => /\ g_op.x = object_center_x /\ g_op.y = object_center_y
                     /\ g_op.w = frame_width /\ g_op.h = frame_height
    /\ ComputeCall(object_center_x, object_center_y, frame_width, frame_height)

ControlInputs == {"pan", "tilt", "roll"}
AngleInputs == {-6, -5, -1, 0, 30, 31, 180, 181}                     \* degrees
PointInputs == {<<320, 240>>, <<480, 360>>, <<160, 120>>,
                <<-20000, -20000>>, <<30000, 30000>>}
FrameInputs == {<<RES_W, RES_H>>, <<101, 75>>}

GimbalNext ==
    \/ \E c \in ControlInputs, a \in AngleInputs, f \in SUBSET {PAN_CHANNEL, TILT_CHANNEL} :
          SetGimbalAngle(c, Deg(a), f)
    \/ \E p \in PointInputs, f \in SUBSET {PAN_CHANNEL, TILT_CHANNEL} :
          TrackObject(p[1], p[2], f)
    \/ \E p \in PointInputs, r \in FrameInputs : Compute(p[1], p[2], r[1], r[2])
    \/ \E r \in FrameInputs : ComputeCentre(r[1], r[2])

\* The gimbal driven through CameraController only: set_gimbal_angle and
\* track_object, with no call made on camera.servo_control from outside.
GimbalCallsNext ==
    \/ \E c \in ControlInputs, a \in AngleInputs, f \in SUBSET {PAN_CHANNEL, TILT_CHANNEL} :
          SetGimbalAngle(c, Deg(a), f)
    \/ \E p \in PointInputs, f \in SUBSET {PAN_CHANNEL, TILT_CHANNEL} :
          TrackObject(p[1], p[2], f)

SaturationNext ==
    \E p \in PointInputs, r \in FrameInputs : RepeatCompute(p[1], p[2], r[1], r[2])

(***************************************************************************)
(* camera.py : the streaming session of CameraController.                  *)
(* A frame is identified by the order in which it was captured or          *)
(* generated: 1, 2, ...; a copy of a frame is the same frame.              *)
(***************************************************************************)
MaxCalls == 3           \* bound: start_streaming / stop_streaming calls explored
MaxFrames == 3          \* bound: frames captured or generated

NoFrame == -1           \* self.frame_buffer = None
BlankFrame == 0         \* np.zeros(...), the blank frame of the simulation

\* Mutant of InitialFrameBuffer: _init_simulation_camera stores no blank frame.
InitialFrameBufferNone(h) == NoFrame

\* self.frame_buffer after __init__: None, or the blank frame stored by
\* _init_simulation_camera when there is no hardware.
InitialFrameBuffer(h) == IF h THEN NoFrame ELSE BlankFrame

StreamInit(h) ==
    /\ is_streaming = FALSE
    /\ stream_thread = 0
    /\ frame_buffer = InitialFrameBuffer(h)
    /\ thr = <<>>
    /\ sim = [pc |-> IF h THEN "off" ELSE "generate", frame |-> NoFrame]
    /\ produced = 0
    /\ caller = [pc |-> "idle", active_before |-> FALSE]
    /\ calls = <<>>
    /\ rd = [op |-> "none", kind |-> "none", frame |-> NoFrame,
             published |-> FALSE, encode_failed |-> FALSE]
    /\ fb_write = [by |-> IF frame_buffer = NoFrame THEN "none" ELSE "init",
                   streaming |-> FALSE]

LiveLoops == {t \in 1..Len(thr) : thr[t].pc # "exited"}

\* Mutant of StartRefused: start_streaming without its guard.
StartNeverRefused == FALSE

\* The guard of start_streaming: the call is refused while streaming is active.
StartRefused == is_streaming

\* The record of a returned start/stop call kept in `calls`: what it returned,
\* the active flag and the number of loop threads before and after it, and how
\* its join ended ("none": no join was made).
CallRecord(op, ret, active_before, active_after, threads_after, join) ==
    [op |-> op, ret |-> ret, active_before |-> active_before,
     active_after |-> active_after, threads_before |-> Len(thr),
     threads_after |-> threads_after, join |-> join]

\* start_streaming()
StartStreaming ==
    /\ caller.pc = "idle"
    /\ Len(calls) < MaxCalls
    /\ IF StartRefused
       THEN /\ UNCHANGED <<is_streaming, stream_thread, thr>>
            /\ calls' = Append(calls, CallRecord("start", FALSE, is_streaming, is_streaming', Len(thr'), "none"))
       ELSE /\ is_streaming' = TRUE
            /\ thr' = Append(thr, [pc |-> "test", frame |-> NoFrame, failed |-> FALSE])
            /\ stream_thread' = Len(thr) + 1
            /\ calls' = Append(calls, CallRecord("start", TRUE, is_streaming, is_streaming', Len(thr'), "none"))
    /\ UNCHANGED <<frame_buffer, sim, produced, caller, rd, fb_write>>
    /\ UNCHANGED other_than_stream

\* The guard of stop_streaming: the call is refused while streaming is idle.
StopRefused == ~is_streaming

\* stop_streaming() up to its join: the flag is cleared, then the caller waits
\* in self.stream_thread.join(timeout=1.0).
StopStreaming ==
    /\ caller.pc = "idle"
    /\ Len(calls) < MaxCalls
    /\ IF StopRefused
       THEN /\ UNCHANGED <<is_streaming, stream_thread, caller>>
            /\ calls' = Append(calls, CallRecord("stop", FALSE, is_streaming, is_streaming', Len(thr), "none"))
       ELSE /\ is_streaming' = FALSE
            /\ IF stream_thread # 0
               THEN /\ caller' = [pc |-> "joining", active_before |-> is_streaming]
                    /\ UNCHANGED <<calls, stream_thread>>
               ELSE /\ calls' = Append(calls, CallRecord("stop", TRUE, is_streaming, is_streaming', Len(thr), "none"))
                    /\ UNCHANGED <<caller, stream_thread>>
    /\ UNCHANGED <<frame_buffer, thr, sim, produced, rd, fb_write>>
    /\ UNCHANGED other_than_stream

\* join(timeout=1.0) returns, because the loop thread has ended or because the
\* second has passed; then self.stream_thread = None and stop_streaming returns.
StopJoinReturn(timed_out) ==
    /\ caller.pc = "joining"
    /\ IF timed_out THEN thr[stream_thread].pc # "exited"
                    ELSE thr[stream_thread].pc = "exited"
    /\ stream_thread' = 0
    /\ caller' = [pc |-> "idle", active_before |-> FALSE]
    /\ calls' = Append(calls, CallRecord("stop", TRUE, caller.active_before, is_streaming, Len(thr),
                                         IF timed_out THEN "timeout" ELSE "joined"))
    /\ UNCHANGED <<is_streaming, frame_buffer, thr, sim, produced, rd, fb_write>>
    /\ UNCHANGED other_than_stream

\* Mutant of StreamTest: `while True`, the flag is never looked at.
StreamTestForever(t) ==
    /\ thr[t].pc = "test"
    /\ thr' = [thr EXCEPT ![t].pc = "acquire"]
    /\ UNCHANGED <<is_streaming, stream_thread, frame_buffer, sim, produced,
                   caller, calls, rd, fb_write>>
    /\ UNCHANGED other_than_stream

\* _stream_video: while self.is_streaming
StreamTest(t) ==
    /\ thr[t].pc = "test"
    /\ thr' = [thr EXCEPT ![t].pc = IF is_streaming THEN "acquire" ELSE "exited"]
    /\ UNCHANGED <<is_streaming, stream_thread, frame_buffer, sim, produced,
                   caller, calls, rd, fb_write>>
    /\ UNCHANGED other_than_stream

\* Mutant of AfterCaughtException: the exception ends the loop thread.
AfterUncaughtException == "exited"

\* _stream_video: where the loop goes after `except Exception` has logged the
\* error of a cycle: back to the test of `while self.is_streaming`.
AfterCaughtException == "test"

\* _stream_video: frame = self.camera.capture_array() with hardware, else
\* frame = self.frame_buffer.copy(). An exception (the capture throws, or the
\* buffer is None) is caught by the loop, which goes on to its next test;
\* `failed` remembers that the thread has had such a cycle.
StreamAcquire(t, raises) ==
    /\ thr[t].pc = "acquire"
    /\ raises => hw_c
    /\ IF hw_c
       THEN IF raises
            THEN /\ thr' = [thr EXCEPT ![t].pc = AfterCaughtException, ![t].failed = TRUE]
                 /\ UNCHANGED produced
            ELSE /\ produced < MaxFrames
                 /\ produced' = produced + 1
                 /\ thr' = [thr EXCEPT ![t].pc = "publish", ![t].frame = produced + 1]
       ELSE /\ thr' = IF frame_buffer = NoFrame
                      THEN [thr EXCEPT ![t].pc = AfterCaughtException, ![t].failed = TRUE]
                      ELSE [thr EXCEPT ![t].pc = "publish", ![t].frame = frame_buffer]
            /\ UNCHANGED produced
    /\ UNCHANGED <<is_streaming, stream_thread, frame_buffer, sim, caller, calls,
                   rd, fb_write>>
    /\ UNCHANGED other_than_stream

\* _stream_video: self.frame_buffer = frame
StreamPublish(t) ==
    /\ thr[t].pc = "publish"
    /\ frame_buffer' = thr[t].frame
    /\ fb_write' = [by |-> "stream", streaming |-> is_streaming]
    /\ thr' = [thr EXCEPT ![t].pc = "sleep"]
    /\ UNCHANGED <<is_streaming, stream_thread, sim, produced, caller, calls, rd>>
    /\ UNCHANGED other_than_stream

\* _stream_video: time.sleep(1 / self.framerate) returns
StreamSleep(t) ==
    /\ thr[t].pc = "sleep"
    /\ thr' = [thr EXCEPT ![t].pc = "test"]
    /\ UNCHANGED <<is_streaming, stream_thread, frame_buffer, sim, produced,
                   caller, calls, rd, fb_write>>
    /\ UNCHANGED other_than_stream

\* _update_simulation: a new synthetic frame is drawn
SimGenerate ==
    /\ sim.pc = "generate"
    /\ produced < MaxFrames
    /\ produced' = produced + 1
    /\ sim' = [pc |-> "publish", frame |-> produced + 1]
    /\ UNCHANGED <<is_streaming, stream_thread, frame_buffer, thr, caller, calls,
                   rd, fb_write>>
    /\ UNCHANGED other_than_stream

\* _update_simulation: self.frame_buffer = np.array(pil_img)
SimPublish ==
    /\ sim.pc = "publish"
    /\ frame_buffer' = sim.frame
    /\ fb_write' = [by |-> "sim", streaming |-> is_streaming]
    /\ sim' = [sim EXCEPT !.pc = "sleep"]
    /\ UNCHANGED <<is_streaming, stream_thread, thr, produced, caller, calls, rd>>
    /\ UNCHANGED other_than_stream

\* _update_simulation: time.sleep(1 / self.framerate) returns
SimSleep ==
    /\ sim.pc = "sleep"
    /\ sim' = [sim EXCEPT !.pc = "generate"]
    /\ UNCHANGED <<is_streaming, stream_thread, frame_buffer, thr, produced,
                   caller, calls, rd, fb_write>>
    /\ UNCHANGED other_than_stream

\* Whether a loop (the streaming loop or the generator) has published a frame.
Published == fb_write.by \in {"stream", "sim"}

\* get_current_frame(): return self.frame_buffer
GetCurrentFrame ==
    /\ rd' = [op |-> "get_current_frame",
              kind |-> IF frame_buffer = NoFrame THEN "none" ELSE "frame",
              frame |-> frame_buffer, published |-> Published,
              encode_failed |-> FALSE]
    /\ UNCHANGED <<is_streaming, stream_thread, frame_buffer, thr, sim, produced,
                   caller, calls, fb_write>>
    /\ UNCHANGED other_than_stream

\* get_frame_base64(): None without a frame, None when the JPEG / base64
\* conversion throws, else the encoded frame.
GetFrameBase64(raises) ==
    /\ raises => frame_buffer # NoFrame
    /\ rd' = [op |-> "get_frame_base64",
              kind |-> IF frame_buffer = NoFrame \/ raises THEN "none" ELSE "base64",
              frame |-> IF frame_buffer = NoFrame \/ raises THEN NoFrame ELSE frame_buffer,
              published |-> Published, encode_failed |-> raises]
    /\ UNCHANGED <<is_streaming, stream_thread, frame_buffer, thr, sim, produced,
                   caller, calls, fb_write>>
    /\ UNCHANGED other_than_stream

StreamNext ==
    \/ StartStreaming
    \/ StopStreaming
    \/ \E o \in BOOLEAN : StopJoinReturn(o)
    \/ \E t \in 1..Len(thr) : StreamTest(t)
    \/ \E t \in 1..Len(thr), r \in BOOLEAN : StreamAcquire(t, r)
    \/ \E t \in 1..Len(thr) : StreamPublish(t)
    \/ \E t \in 1..Len(thr) : StreamSleep(t)
    \/ SimGenerate
    \/ SimPublish
    \/ SimSleep
    \/ GetCurrentFrame
    \/ \E r \in BOOLEAN : GetFrameBase64(r)

\* The session and its threads without the readers of the frame buffer.
StreamLoopNext ==
    \/ StartStreaming
    \/ StopStreaming
    \/ \E o \in BOOLEAN : StopJoinReturn(o)
    \/ \E t \in 1..Len(thr) : StreamTest(t)
    \/ \E t \in 1..Len(thr), r \in BOOLEAN : StreamAcquire(t, r)
    \/ \E t \in 1..Len(thr) : StreamPublish(t)
    \/ \E t \in 1..Len(thr) : StreamSleep(t)
    \/ SimGenerate
    \/ SimPublish
    \/ SimSleep

\* The next step of the t-th loop thread that start_streaming created: the
\* thread is sequential, so exactly one of its steps is enabled while it lives.
LoopStep(t) ==
    /\ t <= Len(thr)
    /\ \/ StreamTest(t)
       \/ \E r \in BOOLEAN : StreamAcquire(t, r)
       \/ StreamPublish(t)
       \/ StreamSleep(t)

(***************************************************************************)
(* The specifications. Each explores one component from its state after    *)
(* construction, with or without hardware; the other components rest.      *)
(***************************************************************************)
MotionRest == MotionInit(FALSE)
CameraInit(h) == GimbalInit(h) /\ StreamInit(h)

Init == (\E h \in BOOLEAN : MotionInit(h)) /\ CameraInit(FALSE)
Next == MotionNext
Spec == Init /\ [][Next]_vars

GimbalSpecInit == MotionRest /\ \E h \in BOOLEAN : CameraInit(h)
GimbalSpec == GimbalSpecInit /\ [][GimbalNext]_vars
SaturationSpec == GimbalSpecInit /\ [][SaturationNext]_vars
GimbalCallsSpec == GimbalSpecInit /\ [][GimbalCallsNext]_vars

StreamSpecInit == MotionRest /\ \E h \in BOOLEAN : CameraInit(h)
StreamSpec == StreamSpecInit /\ [][StreamNext]_vars

\* The session under a fair scheduler: a loop thread that can take its next
\* step (the test, a capture that returns or throws, the assignment, the end of
\* the sleep) takes it, and join(timeout=1.0) returns.
StreamFairSpec ==
    /\ StreamSpecInit
    /\ [][StreamLoopNext]_vars
    /\ \A t \in 1..MaxCalls : WF_vars(LoopStep(t))
    /\ WF_vars(\E o \in BOOLEAN : StopJoinReturn(o))

(***************************************************************************)
(* The claims about MovementController, checked under Spec.                *)
(***************************************************************************)

\* C1: once the watchdog has forced its stop, more than the 5-second deadline
\* after an accepted move and with no move call since, the stored motion
\* state is direction = stop and speed = 0.
C1_ForcedStopSetsState ==
    (mv.pc = "idle" /\ mv.result = "True"
        /\ wd_stop_age > WATCHDOG_DEADLINE * TicksPerSecond)
    => (current_direction = "stop" /\ current_speed = 0)

\* C2: the watchdog never calls its stop primitive at a moment when the most
\* recently accepted move is less than 5 seconds old.
C2_NoStopWithinDeadline ==
    wd_stop_age # -1 => wd_stop_age >= WATCHDOG_DEADLINE * TicksPerSecond

\* C3: when the last move call was accepted and no move call follows, the
\* watchdog's first stop comes no earlier than 5 and no later than 6 seconds
\* after that move: a stop made is 5 to 6 seconds after it, and once more than
\* 6 seconds have passed a stop has been made.
C3_StopBetween5And6Seconds ==
    (mv.pc = "idle" /\ mv.result = "True") =>
        /\ wd_stop_age # -1 =>
              /\ wd_stop_age >= WATCHDOG_DEADLINE * TicksPerSecond
              /\ wd_stop_age <= (WATCHDOG_DEADLINE + WATCHDOG_PERIOD) * TicksPerSecond
        /\ since_command > (WATCHDOG_DEADLINE + WATCHDOG_PERIOD) * TicksPerSecond
              => wd_stop_age # -1

\* C4: a move call with an unrecognized direction has no side effect: no step
\* of it changes current_direction, current_speed or last_command_time, it
\* makes no driver call, and it returns failure.
C4_InvalidMoveNoSideEffect ==
    [][(mv.pc # "idle" /\ mv.direction \notin Directions) =>
          /\ current_direction' = current_direction
          /\ current_speed' = current_speed
          /\ since_command' = since_command
          /\ (mv'.pc = "idle" => mv'.result = "False" /\ motor' = motor)]_vars

\* C5: a failure of a driver call never propagates: no move call ends with an
\* exception and the watchdog thread never dies.
C5_DriverFailureContained ==
    mv.result # "raised" /\ wd.pc # "dead"

(***************************************************************************)
(* The claims about the gimbal, checked under GimbalSpec.                  *)
(***************************************************************************)

\* C6: set_gimbal_angle with an unknown axis, a pan outside [0,180] or a tilt
\* outside [-5,30] returns failure, leaves pan_angle, tilt_angle and the
\* ServoControl angles unchanged and makes no servo call.
C6_SetAngleRejects ==
    (/\ g_op.op = "set_gimbal_angle"
     /\ \/ g_op.control \notin {"pan", "tilt"}
        \/ g_op.control = "pan"  /\ (g_op.angle < 0 * K \/ g_op.angle > 180 * K)
        \/ g_op.control = "tilt" /\ (g_op.angle < (-5) * K \/ g_op.angle > 30 * K))
    => (/\ g_op.ok = FALSE
        /\ GimbalState = g_op.pre
        /\ g_op.servo = <<>>)

\* C6 witness: with hardware and after earlier operations changed the angles,
\* a pan of 181 has been refused.
C6_Witness ==
    /\ hw_c
    /\ g_op.op = "set_gimbal_angle"
    /\ g_op.control = "pan" /\ g_op.angle = 181 * K
    /\ g_op.ok = FALSE
    /\ g_op.pre # <<PAN_INIT * K, TILT_INIT * K, PAN_INIT * K, TILT_INIT * K>>

\* C7: the pair returned by calculate_servo_angles and the stored angles
\* (ServoControl's and CameraController's) satisfy 0 <= pan <= 180 and
\* -5 <= tilt <= 30 after any sequence of operations.
C7_AnglesInRange ==
    /\ 0 * K <= sc_pan /\ sc_pan <= 180 * K
    /\ (-5) * K <= sc_tilt /\ sc_tilt <= 30 * K
    /\ 0 * K <= pan_angle /\ pan_angle <= 180 * K
    /\ (-5) * K <= tilt_angle /\ tilt_angle <= 30 * K
    /\ g_op.op \in {"calculate_servo_angles", "track_object"} =>
          /\ 0 * K <= g_op.ret[1] /\ g_op.ret[1] <= 180 * K
          /\ (-5) * K <= g_op.ret[2] /\ g_op.ret[2] <= 30 * K

\* C7 witness: an out-of-frame point whose deltas leave both ranges has been
\* tracked and both angles were clamped to their upper limits.
C7_Witness ==
    /\ g_op.op = "track_object"
    /\ g_op.x < 0 /\ g_op.y < 0
    /\ g_op.pre[3] - (g_op.x - RES_W \div 2) > 180 * K
    /\ g_op.pre[4] - (g_op.y - RES_H \div 2) > 30 * K
    /\ g_op.ret = <<180 * K, 30 * K>>
    /\ pan_angle = 180 * K /\ tilt_angle = 30 * K

(***************************************************************************)
(* The claims about the streaming session, checked under StreamSpec.       *)
(***************************************************************************)

\* C8: on a fresh session start() returns true, a second start() in sequence
\* returns false, stop() on an idle session returns false, and a refused
\* start or stop leaves the active flag unchanged, spawns no loop and joins
\* none.
C8_StartStopGuard ==
    /\ (Len(calls) >= 1 /\ calls[1].op = "start") => calls[1].ret = TRUE
    /\ (Len(calls) >= 2 /\ calls[1].op = "start" /\ calls[2].op = "start")
          => calls[2].ret = FALSE
    /\ \A i \in 1..Len(calls) :
          /\ (calls[i].op = "stop" /\ ~calls[i].active_before) => calls[i].ret = FALSE
          /\ ~calls[i].ret =>
                /\ calls[i].active_after = calls[i].active_before
                /\ calls[i].threads_after = calls[i].threads_before
                /\ calls[i].join = "none"

\* C8 witness: two start() calls in sequence on a fresh session, the second
\* refused with one loop spawned.
C8_Witness ==
    /\ Len(calls) >= 2
    /\ calls[1].op = "start" /\ calls[1].ret = TRUE
    /\ calls[2].op = "start" /\ calls[2].ret = FALSE
    /\ Len(thr) = 1
    /\ is_streaming

\* C9: while streaming is active only a streaming loop assigns the frame
\* buffer.
C9_SingleProducer ==
    fb_write.streaming => fb_write.by = "stream"

\* C10 as stated: a read returns "no frame available" exactly when no loop has
\* published a frame yet, in the hardware and in the simulated variant.
C10_NoneUntilFirstCycle ==
    rd.op # "none" => (rd.kind = "none" <=> ~rd.published)

\* C10 amended: get_current_frame returns None exactly when the buffer was
\* never assigned, that is with hardware and before the first publication (the
\* simulated variant starts with a blank frame); get_frame_base64 returns None
\* in that case and when the encoding throws; once a frame is in the buffer
\* the buffer is never None again.
C10_NoneOnlyWithoutBuffer ==
    /\ rd.op = "get_current_frame" =>
          (rd.kind = "none" <=> (hw_c /\ ~rd.published))
    /\ rd.op = "get_frame_base64" =>
          (rd.kind = "none" <=> ((hw_c /\ ~rd.published) \/ rd.encode_failed))
    /\ (Published \/ ~hw_c) => frame_buffer # NoFrame

\* C10 witness: in simulation, with streaming started, a read made before any
\* loop published has returned the blank frame.
C10_Witness ==
    /\ ~hw_c
    /\ is_streaming
    /\ rd.op = "get_current_frame"
    /\ ~rd.published
    /\ rd.kind = "frame" /\ rd.frame = BlankFrame

(***************************************************************************)
(* Claims about the gimbal, continued (GimbalSpec).                        *)
(***************************************************************************)

\* C11: when the servo driver throws inside set_gimbal_angle on a valid control
\* and an in-range angle, the call returns False and nothing is rolled back:
\* both copies of that axis's angle hold the requested angle, and the other
\* axis is as it was.
C11_FailedServoKeepsNewAngle ==
    (/\ g_op.op = "set_gimbal_angle"
     /\ hw_c
     /\ g_op.failing # {})
    => /\ g_op.ok = FALSE
       /\ g_op.control = "pan" =>
             /\ 0 * K <= g_op.angle /\ g_op.angle <= 180 * K
             /\ pan_angle = g_op.angle /\ sc_pan = g_op.angle
             /\ tilt_angle = g_op.pre[2] /\ sc_tilt = g_op.pre[4]
       /\ g_op.control = "tilt" =>
             /\ (-5) * K <= g_op.angle /\ g_op.angle <= 30 * K
             /\ tilt_angle = g_op.angle /\ sc_tilt = g_op.angle
             /\ pan_angle = g_op.pre[1] /\ sc_pan = g_op.pre[3]
       /\ g_op.control \in {"pan", "tilt"}

\* C11 witness: on hardware, a pan of 0 requested from 90 failed in the driver,
\* was reported False, and the stored pan is 0.
C11_Witness ==
    /\ hw_c
    /\ g_op.op = "set_gimbal_angle"
    /\ g_op.control = "pan" /\ g_op.angle = 0
    /\ g_op.failing = {0}
    /\ g_op.pre[1] = 90 * K /\ g_op.pre[3] = 90 * K
    /\ g_op.ok = FALSE
    /\ pan_angle = 0 /\ sc_pan = 0

\* C12: track_object(x, y) returns True exactly when its set_gimbal_angle call
\* for pan and the one for tilt both return True; a call fails only when the
\* driver throws on its channel; both axes receive the pair that one
\* calculate_servo_angles call at 640x480 produced from the stored angles; and
\* the tilt command reaches the driver although the pan command failed.
C12_TrackObjectBothAxes ==
    g_op.op = "track_object" =>
       LET p0 == g_op.pre[3] - (g_op.x - 320)
           t0 == g_op.pre[4] - (g_op.y - 240)
           ep == IF p0 < 0 THEN 0 ELSE IF p0 > 180 * K THEN 180 * K ELSE p0
           et == IF t0 < (-5) * K THEN (-5) * K ELSE IF t0 > 30 * K THEN 30 * K ELSE t0
           channels == [i \in DOMAIN g_op.servo |-> g_op.servo[i][1]]
       IN  /\ g_op.ok <=> (g_op.sub[1] /\ g_op.sub[2])
           /\ g_op.sub[1] <=> ~(hw_c /\ 0 \in g_op.failing)
           /\ g_op.sub[2] <=> ~(hw_c /\ 1 \in g_op.failing)
           /\ g_op.ret = <<ep, et>>
           /\ <<pan_angle, tilt_angle, sc_pan, sc_tilt>> = <<ep, et, ep, et>>
           /\ hw_c => channels = (IF 0 \in g_op.failing THEN <<>> ELSE <<0>>)
                                 \o (IF 1 \in g_op.failing THEN <<>> ELSE <<1>>)

\* C12 witness: on hardware the pan command of track_object(160, 120) failed,
\* the tilt command was still sent to channel 1 and moved the tilt, and
\* track_object returned False.
C12_Witness ==
    /\ hw_c
    /\ g_op.op = "track_object"
    /\ g_op.x = 160 /\ g_op.y = 120
    /\ g_op.failing = {0}
    /\ g_op.sub = <<FALSE, TRUE>>
    /\ g_op.ok = FALSE
    /\ Len(g_op.servo) = 1 /\ g_op.servo[1][1] = 1
    /\ tilt_angle # g_op.pre[2]

\* C14: calculate_servo_angles(x, y, w, h) returns
\* (clamp(pan - (x - w div 2)/75, 0, 180), clamp(tilt - (y - h div 2)/75, -5, 30))
\* of the angles stored before the call and stores that pair; (480, 360) in a
\* 640x480 frame from (90, -5) gives pan = 90 - 160/75 and tilt = -5.
C14_ComputeFollowsFormula ==
    g_op.op = "calculate_servo_angles" =>
       LET p0 == g_op.pre[3] - (g_op.x - g_op.w \div 2)
           t0 == g_op.pre[4] - (g_op.y - g_op.h \div 2)
           ep == IF p0 < 0 THEN 0 ELSE IF p0 > 180 * K THEN 180 * K ELSE p0
           et == IF t0 < (-5) * K THEN (-5) * K ELSE IF t0 > 30 * K THEN 30 * K ELSE t0
       IN  /\ g_op.ret = <<ep, et>>
           /\ <<sc_pan, sc_tilt>> = <<ep, et>>
           /\ (/\ <<g_op.x, g_op.y, g_op.w, g_op.h>> = <<480, 360, 640, 480>>
               /\ <<g_op.pre[3], g_op.pre[4]>> = <<90 * K, (-5) * K>>)
              => g_op.ret = <<90 * K - 160, (-5) * K>>

\* C14 witness: the bottom-right case of test_servo_control has run from the
\* initial angles: pan moved down by 160/75 degree, tilt stayed at -5.
C14_Witness ==
    /\ g_op.op = "calculate_servo_angles"
    /\ <<g_op.x, g_op.y, g_op.w, g_op.h>> = <<480, 360, 640, 480>>
    /\ <<g_op.pre[3], g_op.pre[4]>> = <<90 * K, (-5) * K>>
    /\ <<sc_pan, sc_tilt>> = <<6590, -375>>

\* C15: with the object at the integer centre (w div 2, h div 2) of a frame of
\* any size, calculate_servo_angles returns exactly the angles stored before
\* the call and leaves every stored angle as it was.
C15_CentreIsFixedPoint ==
    (/\ g_op.op = "calculate_servo_angles"
     /\ g_op.x = g_op.w \div 2
     /\ g_op.y = g_op.h \div 2)
    => /\ g_op.ret = <<g_op.pre[3], g_op.pre[4]>>
       /\ <<pan_angle, tilt_angle, sc_pan, sc_tilt>> = g_op.pre

\* C15 witness: from angles other than the initial ones, the centre (50, 37) of
\* a 101x75 frame was given and the angles came back unchanged.
C15_Witness ==
    /\ g_op.op = "calculate_servo_angles"
    /\ <<g_op.x, g_op.y, g_op.w, g_op.h>> = <<50, 37, 101, 75>>
    /\ g_op.pre[3] # 90 * K
    /\ g_op.pre[4] # (-5) * K
    /\ g_op.ret = <<g_op.pre[3], g_op.pre[4]>>

(***************************************************************************)
(* Claim about repeated calls of calculate_servo_angles (SaturationSpec).  *)
(***************************************************************************)

\* C16: when calculate_servo_angles is called n times in a row with one
\* off-centre input, starting from (90, -5), every call moves an axis towards
\* the limit that the sign of its error selects, strictly while the axis is not
\* at that limit; an axis is at the limit once n times the error covers the
\* distance from the start; and a call made at the limit returns the limit.
C16_MonotonicSaturation ==
    g_op.op = "calculate_servo_angles" =>
       LET error_pan  == g_op.x - g_op.w \div 2
           error_tilt == g_op.y - g_op.h \div 2
       IN  /\ error_pan > 0 =>
                 /\ g_op.ret[1] <= g_op.pre[3]
                 /\ g_op.pre[3] > 0 => g_op.ret[1] < g_op.pre[3]
                 /\ g_op.pre[3] = 0 => g_op.ret[1] = 0
                 /\ g_op.n * error_pan >= 90 * K => g_op.ret[1] = 0
           /\ error_pan < 0 =>
                 /\ g_op.ret[1] >= g_op.pre[3]
                 /\ g_op.pre[3] < 180 * K => g_op.ret[1] > g_op.pre[3]
                 /\ g_op.pre[3] = 180 * K => g_op.ret[1] = 180 * K
                 /\ g_op.n * (-error_pan) >= 90 * K => g_op.ret[1] = 180 * K
           /\ error_tilt > 0 =>
                 /\ g_op.ret[2] <= g_op.pre[4]
                 /\ g_op.pre[4] > (-5) * K => g_op.ret[2] < g_op.pre[4]
                 /\ g_op.pre[4] = (-5) * K => g_op.ret[2] = (-5) * K
                 /\ g_op.ret[2] = (-5) * K
           /\ error_tilt < 0 =>
                 /\ g_op.ret[2] >= g_op.pre[4]
                 /\ g_op.pre[4] < 30 * K => g_op.ret[2] > g_op.pre[4]
                 /\ g_op.pre[4] = 30 * K => g_op.ret[2] = 30 * K
                 /\ g_op.n * (-error_tilt) >= 35 * K => g_op.ret[2] = 30 * K
           /\ <<sc_pan, sc_tilt>> = g_op.ret

\* C16 witness: (160, 120) in a 640x480 frame was given 44 times; the tilt had
\* climbed to 30 before the last call and the pan to 180 before it, and the
\* last call returned (180, 30) again.
C16_Witness ==
    /\ g_op.op = "calculate_servo_angles"
    /\ <<g_op.x, g_op.y, g_op.w, g_op.h>> = <<160, 120, 640, 480>>
    /\ g_op.n = 44
    /\ <<g_op.pre[3], g_op.pre[4]>> = <<180 * K, 30 * K>>
    /\ g_op.ret = <<180 * K, 30 * K>>

(***************************************************************************)
(* Claims about the streaming session, continued (StreamSpec).             *)
(***************************************************************************)

\* C13: a cycle of the streaming loop in which the capture fails leaves the
\* loop running and the frame buffer as it was: the thread goes back to the
\* test of its loop, goes from that test into a further cycle while the
\* session is active, ends only at a test that finds the session idle, and a
\* thread that has had a failed cycle publishes the frame of its next
\* successful one.
C13_FailureDoesNotEndLoop ==
    [][\A t \in 1..Len(thr) :
          /\ (thr[t].pc = "acquire" /\ thr'[t].pc \notin {"acquire", "publish"})
                => /\ thr'[t].pc = "test"
                   /\ frame_buffer' = frame_buffer
          /\ (thr[t].pc = "test" /\ thr'[t].pc # "test" /\ is_streaming)
                => thr'[t].pc = "acquire"
          /\ (thr[t].pc # "exited" /\ thr'[t].pc = "exited")
                => (thr[t].pc = "test" /\ ~is_streaming)
          /\ (thr[t].failed /\ thr[t].pc = "publish" /\ thr'[t].pc # "publish")
                => /\ frame_buffer' = thr[t].frame
                   /\ thr[t].frame >= 1
                   /\ thr'[t].pc = "sleep"
    ]_vars

\* C13 witness: on hardware, in an active session, a loop thread that has had
\* a failed capture has since published a captured frame and is in its sleep.
C13_Witness ==
    /\ hw_c
    /\ is_streaming
    /\ \E t \in 1..Len(thr) :
          /\ thr[t].failed
          /\ thr[t].pc = "sleep"
          /\ thr[t].frame >= 1
          /\ frame_buffer = thr[t].frame

(***************************************************************************)
(* Claim about the end of a session (StreamFairSpec).                      *)
(***************************************************************************)

\* C18: a stop_streaming that returned True was called on an active session
\* and left the active flag False; a stop_streaming that waits in its join
\* returns, whether or not the loop has ended; and whenever the session is
\* idle, each loop thread either ends or the session is started again.
C18_StopEndsSession ==
    /\ [](\A i \in 1..Len(calls) :
             (calls[i].op = "stop" /\ calls[i].ret)
                => (calls[i].active_before /\ ~calls[i].active_after))
    /\ (caller.pc = "joining") ~> (caller.pc = "idle")
    /\ \A t \in 1..MaxCalls :
          (t <= Len(thr) /\ ~is_streaming)
             ~> ((t <= Len(thr) /\ thr[t].pc = "exited") \/ is_streaming)

\* C18 witness: stop_streaming has returned True after its join timed out; the
\* session is idle and the loop thread it was stopping is still running.
C18_Witness ==
    /\ Len(calls) > 0
    /\ calls[Len(calls)].op = "stop"
    /\ calls[Len(calls)].ret
    /\ calls[Len(calls)].join = "timeout"
    /\ ~is_streaming
    /\ LiveLoops # {}

(***************************************************************************)
(* Claims about the movement controller, continued (Spec).                 *)
(***************************************************************************)

\* C17: after any sequence of move calls with any arguments and of watchdog
\* ticks, the stored direction is one of forward, backward, left, right, stop
\* and the stored speed is between 0 and 100.
C17_MotionStateInType ==
    /\ current_direction \in {"forward", "backward", "left", "right", "stop"}
    /\ current_speed >= 0
    /\ current_speed <= 100

\* C19: no step of the watchdog thread (its deadline test, its forced stop,
\* the end of its sleep) changes the time since the last command; a deadline
\* test made more than 5 seconds after the last command goes to the forced
\* stop; and an expired deadline stops being expired only by the assignment
\* of last_command_time in move.
C19_WatchdogLeavesCommandTime ==
    [][/\ wd'.pc # wd.pc => since_command' = since_command
       /\ (wd.pc = "check" /\ wd'.pc # "check")
             => (wd'.pc = "stop" <=> since_command > 5 * TicksPerSecond)
       /\ (since_command > 5 * TicksPerSecond /\ since_command' <= 5 * TicksPerSecond)
             => (mv.pc = "set_time" /\ mv'.pc = "set_direction")
    ]_vars

\* C19 witness: with no move since, the watchdog has just forced a stop at a
\* later tick than its first forced stop, and the deadline is still expired.
C19_Witness ==
    /\ wd.pc = "sleep"
    /\ wd.sleep_left = 1 * TicksPerSecond
    /\ motor.by = "watchdog"
    /\ mv.pc = "idle"
    /\ wd_stop_age > 5 * TicksPerSecond
    /\ since_command > wd_stop_age
    /\ since_command > 5 * TicksPerSecond

\* C20: last_command_time, current_direction and current_speed change as one
\* unit: in no state that another thread can observe does one of them hold the
\* value of the last move call while another still holds an earlier value.
C20_StateUpdatedAsUnit ==
    /\ fields_of.time = fields_of.direction
    /\ fields_of.direction = fields_of.speed

\* C21: a move that returns True has recorded the time of the command, stored
\* its direction and speed, and made one call on the driver: t_up, t_down,
\* turnLeft, turnRight with the given speed and the 0.1 hint, or t_stop with the
\* hint, by the direction (without hardware the driver object receives no call,
\* the primitive is a log line); and move returns False only for a direction
\* that is none of the five, whatever the stored direction was.
C21_AcceptedMoveDrives ==
    [][(mv.pc = "dispatch" /\ mv'.pc = "idle") =>
          /\ mv'.result = "False"
                <=> mv.direction \notin {"forward", "backward", "left", "right", "stop"}
          /\ mv'.result = "True" =>
                /\ since_command' = 0
                /\ current_direction' = mv.direction
                /\ current_speed' = mv.speed
                /\ hw_m => motor' =
                      [prim |-> CASE mv.direction = "forward"  -> "t_up"
                                  [] mv.direction = "backward" -> "t_down"
                                  [] mv.direction = "left"     -> "turnLeft"
                                  [] mv.direction = "right"    -> "turnRight"
                                  [] mv.direction = "stop"     -> "t_stop",
                       speed |-> IF mv.direction = "stop" THEN 0 ELSE mv.speed,
                       t_time |-> 1,
                       by |-> "move"]
                /\ ~hw_m => motor' = motor
    ]_vars

\* C21 witness: on hardware, move('left', 50) has returned True: the driver's
\* last call is turnLeft(50, 0.1), the stored state is (left, 50) and the
\* command time is now.
C21_Witness ==
    /\ hw_m
    /\ mv.pc = "idle"
    /\ mv.result = "True"
    /\ mv.direction = "left" /\ mv.speed = 50
    /\ motor = [prim |-> "turnLeft", speed |-> 50, t_time |-> 1, by |-> "move"]
    /\ current_direction = "left" /\ current_speed = 50
    /\ since_command = 0

(***************************************************************************)
(* Claims about the servo mapping and the two copies of the angles.        *)
(***************************************************************************)

\* C22: with hardware, a set_gimbal_angle that returns True has made exactly
\* one call on the servo driver: channel 0 with the logical angle for pan,
\* channel 1 with the logical angle + 90 for tilt, which lies in [85, 120]; a
\* call that returns False, or any call without hardware, reaches no servo.
C22_ServoMapping ==
    g_op.op = "set_gimbal_angle" =>
       /\ (hw_c /\ g_op.ok) =>
             /\ Len(g_op.servo) = 1
             /\ g_op.control = "pan" => g_op.servo[1] = <<0, g_op.angle>>
             /\ g_op.control = "tilt" =>
                   /\ g_op.servo[1] = <<1, g_op.angle + 90 * K>>
                   /\ 85 * K <= g_op.servo[1][2]
                   /\ g_op.servo[1][2] <= 120 * K
       /\ ~(hw_c /\ g_op.ok) => g_op.servo = <<>>

\* C22 witness: on hardware a tilt of 30 was accepted and channel 1 received
\* the physical angle 120.
C22_Witness ==
    /\ hw_c
    /\ g_op.op = "set_gimbal_angle"
    /\ g_op.control = "tilt" /\ g_op.angle = 30 * K
    /\ g_op.ok
    /\ g_op.servo = << <<1, 120 * K>> >>
    /\ tilt_angle = 30 * K

\* C24 (GimbalCallsSpec): after every completed set_gimbal_angle or
\* track_object call, whether it was accepted, refused or failed in the servo
\* driver, CameraController.pan_angle equals servo_control.pan and
\* CameraController.tilt_angle equals servo_control.tilt.
C24_AnglesInSync ==
    /\ pan_angle = sc_pan
    /\ tilt_angle = sc_tilt

\* C24 witness: on hardware both servo calls of a track_object failed, the call
\* returned False, both angles have moved and both copies agree.
C24_Witness ==
    /\ hw_c
    /\ g_op.op = "track_object"
    /\ g_op.failing = {0, 1}
    /\ g_op.ok = FALSE
    /\ pan_angle # g_op.pre[1] /\ pan_angle = sc_pan
    /\ tilt_angle # g_op.pre[2] /\ tilt_angle = sc_tilt

(***************************************************************************)
(* Claims about the loops that publish frames (StreamSpec).                *)
(***************************************************************************)

\* C23: while a session is active at most one _stream_video loop is inside a
\* cycle (capturing, publishing or sleeping, having found the flag True),
\* under any interleaving of start_streaming and stop_streaming calls; a
\* start_streaming after a stop_streaming whose join timed out does not leave
\* the loop of the earlier session running beside the new one.
C23_AtMostOneLoop ==
    is_streaming =>
       Cardinality({t \in LiveLoops : thr[t].pc \in {"acquire", "publish", "sleep"}}) <= 1

\* C25: without hardware, the frame buffer is never replaced by a frame drawn
\* earlier than the one it holds: no step of the generator or of a streaming
\* loop lowers the generation of the published frame.
C25_FrameNeverRegresses ==
    [][~hw_c => frame_buffer' >= frame_buffer]_vars

====
